---- MODULE Spec2Model ----
(***************************************************************************)
(* The global logging facade of package log (src/log/log.go): one          *)
(* process-wide logr.Logger behind a sync.RWMutex, called from several      *)
(* goroutines.  Every facade function is cut into the steps between which   *)
(* another goroutine can run: the call, the lock acquisition, the body      *)
(* (one step per read or write of shared memory that a racing goroutine     *)
(* can separate), and the deferred unlock together with the return.         *)
(*                                                                         *)
(* The LogSink type, the options and package kverrors are defined in other  *)
(* files of the repository; they are modelled from its specification        *)
(* (sections 3, 4.2, 4.3 and 6).  logr.Logger is the                        *)
(* go-logr library's struct {sink, level}.                                  *)
(***************************************************************************)
EXTENDS Integers, Sequences, FiniteSets, TLC

VARIABLES
    mtx,      \* the RWMutex: [writer: holder or announced writer (0 = none), readers: set of threads]
    logger,   \* the facade's current logr.Logger: [sink: heap address, level: Int]
    sinks,    \* the heap of sink objects, addressed 1..Len(sinks)
    pc,       \* per thread: where it stands in its current call
    call,     \* per thread: the call in progress and its arguments
    lg,       \* per thread: the copy of `logger` its call works on (value receiver)
    out,      \* per thread: the io.Writer its sink call has loaded from the sink
    ls,       \* per thread: InitWithOptions' local ls (heap address) and option index
    ret,      \* per thread: the value its call returns
    emitted,  \* per thread: the records its call has handed to a sink / written
    calls     \* the number of facade calls made so far

vars == <<mtx, logger, sinks, pc, call, lg, out, ls, ret, emitted, calls>>

\* ------------------------------------------------------------------ bounds
NumThreads == 2
MaxSinks == 2
MaxLevel == 1
MaxCalls == 2

Threads == 1..NumThreads
Levels == (0 - 1)..MaxLevel
NoWriter == "none"
Stdout == "os.Stdout"
Writers == {Stdout, "w1"}
Components == {<<"app">>}
Names == {"n"}
KeyValues == {<<"k", "v">>}

\* ------------------------------------------------------- package variables
defaultOutput == Stdout
ErrUnknownLoggerType == [msg |-> "unknown error type", kv |-> <<>>, cause |-> <<>>]

\* ------------------------------------------------- LogSink, options, errors
NewLogSink(name, w, v, e, kv) ==
    [kind |-> "LogSink", name |-> name, fields |-> kv, verbosity |-> v,
     output |-> w, encoder |-> e]

\* a logr.LogSink of another implementation: it is no *LogSink
ForeignSink ==
    [kind |-> "Other", name |-> <<>>, fields |-> <<>>, verbosity |-> 0,
     output |-> NoWriter, encoder |-> "none"]

SinkEnabled(s, level) == level <= s.verbosity
SinkSetVerbosity(s, v) == [s EXCEPT !.verbosity = v]
SinkSetOutput(s, w) == [s EXCEPT !.output = w]
SinkWithName(s, segment) == [s EXCEPT !.name = Append(s.name, segment)]
SinkWithValues(s, kv) == [s EXCEPT !.fields = s.fields \o kv]

WithOutput(w) == [opt |-> "WithOutput", w |-> w, v |-> 0, e |-> "none"]
WithLogLevel(v) == [opt |-> "WithLogLevel", w |-> NoWriter, v |-> v, e |-> "none"]
WithEncoder(e) == [opt |-> "WithEncoder", w |-> NoWriter, v |-> 0, e |-> e]

\* the option lists the callers pass: none, one option, and two options that
\* set the same field, in both orders
OptionLists ==
    {<<>>,
     <<WithOutput("w1")>>,
     <<WithEncoder("Text"), WithLogLevel(1)>>,
     <<WithLogLevel(1), WithLogLevel(0)>>,
     <<WithLogLevel(0), WithLogLevel(1)>>}

ApplyOption(o, s) ==
    CASE o.opt = "WithOutput" -> SinkSetOutput(s, o.w)
      [] o.opt = "WithLogLevel" -> SinkSetVerbosity(s, o.v)
      [] o.opt = "WithEncoder" -> [s EXCEPT !.encoder = o.e]

\* kverrors.Add: a new error that wraps err as its cause and carries the fields
KVErrorsAdd(err, kv) == [msg |-> err.msg, kv |-> kv, cause |-> <<err>>]
\* the chain walk of errors.Is: err itself or one of its causes is target
RECURSIVE ErrorsIs(_, _)
ErrorsIs(err, target) ==
    \/ err = target
    \/ /\ err.cause # <<>>
       /\ ErrorsIs(err.cause[1], target)

\* ----------------------------------------------------------- logr.Logger
\* the nil logr.LogSink of the zero logr.Logger{}
NilSink == [ForeignSink EXCEPT !.kind = "nil"]

LogrNew(addr) == [sink |-> addr, level |-> 0]
LogrV(l, level) == [l EXCEPT !.level = l.level + (IF level < 0 THEN 0 ELSE level)]

\* ------------------------------------------------------------ thread state
NoCall ==
    [op |-> "none", level |-> 0, w |-> NoWriter, name |-> "", kv |-> <<>>,
     component |-> <<>>, opts |-> <<>>, l |-> [sink |-> 0, level |-> 0],
     outer |-> <<>>]
NoLogger == [sink |-> 0, level |-> 0]
NoError == [msg |-> "", kv |-> <<>>, cause |-> <<>>]
NoRet == [kind |-> "none", err |-> NoError, l |-> NoLogger, derived |-> ForeignSink]
RetNil == [NoRet EXCEPT !.kind = "nil"]
RetPanic == [NoRet EXCEPT !.kind = "panic"]
RetErr(e) == [NoRet EXCEPT !.kind = "error", !.err = e]
RetLogger(l) == [NoRet EXCEPT !.kind = "logger", !.l = l]
RetDerived(l, s) == [NoRet EXCEPT !.kind = "derived", !.l = l, !.derived = s]
NoLs == [addr |-> 0, i |-> 0]

\* l.GetSink(): the sink l refers to, nil for the zero logr.Logger{}
GetSink(l) == IF l.sink = 0 THEN NilSink ELSE sinks[l.sink]

Init ==
    /\ mtx = [writer |-> 0, readers |-> {}]
    /\ sinks = <<NewLogSink(<<>>, Stdout, 0, "JSON", <<>>)>>
    /\ logger = LogrNew(1)
    /\ pc = [t \in Threads |-> "idle"]
    /\ call = [t \in Threads |-> NoCall]
    /\ lg = [t \in Threads |-> NoLogger]
    /\ out = [t \in Threads |-> NoWriter]
    /\ ls = [t \in Threads |-> NoLs]
    /\ ret = [t \in Threads |-> NoRet]
    /\ emitted = [t \in Threads |-> <<>>]
    /\ calls = 0

\* -------------------------------------------------------------- the calls
\* A goroutine enters a facade function: its arguments are fixed and its next
\* statement is the function's lock acquisition.
Enter(t, c, at) ==
    /\ pc[t] = "idle"
    /\ calls < MaxCalls
    /\ calls' = calls + 1
    /\ pc' = [pc EXCEPT ![t] = at]
    /\ call' = [call EXCEPT ![t] = c]
    /\ UNCHANGED <<mtx, logger, lg, out, ls, ret, emitted>>

\* the functions whose body is InitWithOptions'
InitFamily == {"Init", "InitWithOptions", "MustInit", "MustInitWithOptions"}

\* sinks InitWithOptions calls in progress have still to allocate
PendingNew ==
    Cardinality({t \in Threads : call[t].op \in InitFamily
                                  /\ pc[t] \in {"lock", "lockwait", "cs"}})

InfoCall(t) ==
    /\ Enter(t, [NoCall EXCEPT !.op = "Info"], "rlock")
    /\ UNCHANGED sinks

ErrorCall(t) ==
    /\ Enter(t, [NoCall EXCEPT !.op = "Error"], "rlock")
    /\ UNCHANGED sinks

VCall(t) ==
    /\ \E level \in Levels : Enter(t, [NoCall EXCEPT !.op = "V", !.level = level], "rlock")
    /\ UNCHANGED sinks

WithValuesCall(t) ==
    /\ \E kv \in KeyValues : Enter(t, [NoCall EXCEPT !.op = "WithValues", !.kv = kv], "rlock")
    /\ UNCHANGED sinks

WithNameCall(t) ==
    /\ \E name \in Names : Enter(t, [NoCall EXCEPT !.op = "WithName", !.name = name], "rlock")
    /\ UNCHANGED sinks

SetLogLevelCall(t) ==
    /\ \E v \in Levels : Enter(t, [NoCall EXCEPT !.op = "SetLogLevel", !.level = v], "lock")
    /\ UNCHANGED sinks

SetOutputCall(t) ==
    /\ \E w \in Writers : Enter(t, [NoCall EXCEPT !.op = "SetOutput", !.w = w], "rlock")
    /\ UNCHANGED sinks

InitWithOptionsCall(t) ==
    /\ Len(sinks) + PendingNew < MaxSinks
    /\ \E component \in Components, opts \in OptionLists, kv \in KeyValues :
          Enter(t, [NoCall EXCEPT !.op = "InitWithOptions", !.component = component,
                                  !.opts = opts, !.kv = kv], "lock")
    /\ UNCHANGED sinks

\* Init(component, kv...) is InitWithOptions(component, nil, kv...)
InitCall(t) ==
    /\ Len(sinks) + PendingNew < MaxSinks
    /\ \E component \in Components, kv \in KeyValues :
          Enter(t, [NoCall EXCEPT !.op = "Init", !.component = component,
                                  !.opts = <<>>, !.kv = kv], "lock")
    /\ UNCHANGED sinks

\* The caller passes a logger it holds: one over a sink that exists (obtained
\* from the facade earlier, at some V level), or one over a sink of its own
\* that is no *LogSink, which it has just built.
\* UseLogger taking the read lock
UseLoggerCallRLock(t) ==
    /\ \E a \in 1..Len(sinks), level \in 0..MaxLevel :
          Enter(t, [NoCall EXCEPT !.op = "UseLogger",
                                  !.l = [sink |-> a, level |-> level]], "rlock")
    /\ UNCHANGED sinks

UseLoggerCall(t) ==
    \/ /\ \E a \in 1..Len(sinks), level \in 0..MaxLevel :
             Enter(t, [NoCall EXCEPT !.op = "UseLogger",
                                     !.l = [sink |-> a, level |-> level]], "lock")
       /\ UNCHANGED sinks
    \/ /\ Len(sinks) + PendingNew < MaxSinks
       /\ \A a \in 1..Len(sinks) : sinks[a].kind = "LogSink"
       /\ sinks' = Append(sinks, ForeignSink)
       /\ Enter(t, [NoCall EXCEPT !.op = "UseLogger",
                                  !.l = LogrNew(Len(sinks) + 1)], "lock")
    \/ /\ Enter(t, [NoCall EXCEPT !.op = "UseLogger", !.l = NoLogger], "lock")
       /\ UNCHANGED sinks

MustInitCallDropsKeyValues(t) ==
    /\ Len(sinks) + PendingNew < MaxSinks
    /\ \E component \in Components, kv \in KeyValues :
          Enter(t, [NoCall EXCEPT !.op = "MustInit", !.component = component,
                                  !.opts = <<>>, !.kv = <<>>,
                                  !.outer = <<component, <<>>, kv>>], "lock")
    /\ UNCHANGED sinks

\* MustInit(component, kv...) is Init(component, kv...), which returns
\* nothing: outer keeps what MustInit was given, the other fields what it
\* hands on
MustInitCall(t) ==
    /\ Len(sinks) + PendingNew < MaxSinks
    /\ \E component \in Components, kv \in KeyValues :
          Enter(t, [NoCall EXCEPT !.op = "MustInit", !.component = component,
                                  !.opts = <<>>, !.kv = kv,
                                  !.outer = <<component, <<>>, kv>>], "lock")
    /\ UNCHANGED sinks

\* MustInitWithOptions(component, opts, kv...) is
\* InitWithOptions(component, opts, kv...), which returns nothing
MustInitWithOptionsCall(t) ==
    /\ Len(sinks) + PendingNew < MaxSinks
    /\ \E component \in Components, opts \in OptionLists, kv \in KeyValues :
          Enter(t, [NoCall EXCEPT !.op = "MustInitWithOptions", !.component = component,
                                  !.opts = opts, !.kv = kv,
                                  !.outer = <<component, opts, kv>>], "lock")
    /\ UNCHANGED sinks

\* GetLogger takes no lock: its next statement is the read of logger
GetLoggerCall(t) ==
    /\ Enter(t, [NoCall EXCEPT !.op = "GetLogger"], "get")
    /\ UNCHANGED sinks

\* ------------------------------------------------------------ sync.RWMutex
\* mtx.RLock(): blocks while a writer holds the lock or has announced itself
RLock(t) ==
    /\ pc[t] = "rlock"
    /\ mtx.writer = 0
    /\ mtx' = [mtx EXCEPT !.readers = @ \cup {t}]
    /\ pc' = [pc EXCEPT ![t] = "cs"]
    /\ UNCHANGED <<calls, logger, sinks, call, lg, out, ls, ret, emitted>>

\* mtx.Lock(), first half: exclude the other writers and announce to the readers
LockBegin(t) ==
    /\ pc[t] = "lock"
    /\ mtx.writer = 0
    /\ mtx' = [mtx EXCEPT !.writer = t]
    /\ pc' = [pc EXCEPT ![t] = "lockwait"]
    /\ UNCHANGED <<calls, logger, sinks, call, lg, out, ls, ret, emitted>>

\* mtx.Lock(), second half: wait for the active readers to leave
LockAcquire(t) ==
    /\ pc[t] = "lockwait"
    /\ mtx.readers = {}
    /\ pc' = [pc EXCEPT ![t] = "cs"]
    /\ UNCHANGED <<calls, mtx, logger, sinks, call, lg, out, ls, ret, emitted>>

HoldsRead(t) == t \in mtx.readers
HoldsWrite(t) == mtx.writer = t /\ pc[t] # "lockwait"

\* the registers of a call are dead once it has returned
Leave(t, at) ==
    /\ pc' = [pc EXCEPT ![t] = at]
    /\ call' = [call EXCEPT ![t] = NoCall]
    /\ lg' = [lg EXCEPT ![t] = NoLogger]
    /\ out' = [out EXCEPT ![t] = NoWriter]
    /\ ls' = [ls EXCEPT ![t] = NoLs]
    /\ ret' = [ret EXCEPT ![t] = NoRet]
    /\ emitted' = [emitted EXCEPT ![t] = <<>>]

\* defer mtx.RUnlock() and the return.  log.V(level) hands its logger to the
\* caller, who logs through it: log.V(level).Info(msg)
RUnlock(t) ==
    /\ pc[t] = "done"
    /\ HoldsRead(t)
    /\ mtx' = [mtx EXCEPT !.readers = @ \ {t}]
    /\ IF call[t].op = "V"
         THEN /\ pc' = [pc EXCEPT ![t] = "chain"]
              /\ UNCHANGED <<calls, call, lg, out, ls, ret, emitted>>
         ELSE Leave(t, "idle")
    /\ UNCHANGED <<calls, logger, sinks>>

\* mtx.Unlock() written after the switch and not deferred: the error return
\* leaves without it
UnlockSkippedOnError(t) ==
    /\ pc[t] = "done"
    /\ HoldsWrite(t)
    /\ mtx' = IF ret[t].kind = "error" THEN mtx ELSE [mtx EXCEPT !.writer = 0]
    /\ Leave(t, "idle")
    /\ UNCHANGED <<calls, logger, sinks>>

\* defer mtx.Unlock() and the return
Unlock(t) ==
    /\ pc[t] = "done"
    /\ HoldsWrite(t)
    /\ mtx' = [mtx EXCEPT !.writer = 0]
    /\ Leave(t, "idle")
    /\ UNCHANGED <<calls, logger, sinks>>

\* -------------------------------------------------------------- the bodies
\* useLogger dropping the logger instead of keeping l
\* useLogger sets the logger to l without mtx.Lock()
useLogger(l) == logger' = l

\* the record a sink call writes: what it is, the sink it went to and the
\* writer the line goes to (none for a sink that is no *LogSink)
Record(kind, l, w) ==
    [kind |-> kind, sink |-> l.sink, level |-> l.level, w |-> w,
     name |-> GetSink(l).name, fields |-> GetSink(l).fields]

\* logger.Info(msg, kv...) up to the call of the sink's Info: the logger is
\* copied (value receiver) and logr asks the sink Enabled(level).  What a sink
\* of another implementation answers to Enabled is its own business.  On a
\* logger without sink logr returns at once or, in the releases without the
\* nil checks, panics on the nil sink.
LoggerInfo(t, l, skip) ==
    LET s == GetSink(l) IN
    /\ lg' = [lg EXCEPT ![t] = l]
    /\ \/ /\ s.kind = "LogSink"
          /\ pc' = [pc EXCEPT ![t] = IF SinkEnabled(s, l.level) THEN "sink" ELSE skip]
          /\ UNCHANGED ret
       \/ /\ s.kind = "Other"
          /\ \E enabled \in BOOLEAN :
                pc' = [pc EXCEPT ![t] = IF enabled THEN "sink" ELSE skip]
          /\ UNCHANGED ret
       \/ /\ s.kind = "nil"
          /\ pc' = [pc EXCEPT ![t] = skip]
          /\ \/ UNCHANGED ret
             \/ ret' = [ret EXCEPT ![t] = RetPanic]

\* sink.Info(level, msg, kv...), first statement: a LogSink asks itself
\* Enabled(level) and does nothing when the answer is no
SinkInfoEnabled(t) ==
    LET s == GetSink(lg[t]) IN
    /\ pc[t] = "sink"
    /\ pc' = [pc EXCEPT ![t] = IF s.kind = "LogSink" /\ ~SinkEnabled(s, lg[t].level)
                                 THEN "done" ELSE "load"]
    /\ UNCHANGED <<calls, mtx, logger, sinks, call, lg, out, ls, ret, emitted>>

\* sink.Info(level, msg, kv...): the sink loads the writer it is about to
\* write the line to
SinkLoad(t) ==
    /\ pc[t] = "load"
    /\ out' = [out EXCEPT ![t] = GetSink(lg[t]).output]
    /\ pc' = [pc EXCEPT ![t] = "write"]
    /\ UNCHANGED <<calls, mtx, logger, sinks, call, lg, ls, ret, emitted>>

\* logger.Error(err, msg, kv...) up to the sink's load of its output: logr
\* hands every error to the sink, whatever the level; without sink as Info
LoggerError(t, l) ==
    LET s == GetSink(l) IN
    /\ lg' = [lg EXCEPT ![t] = l]
    /\ \/ /\ s.kind # "nil"
          /\ out' = [out EXCEPT ![t] = s.output]
          /\ pc' = [pc EXCEPT ![t] = "write"]
          /\ UNCHANGED ret
       \/ /\ s.kind = "nil"
          /\ pc' = [pc EXCEPT ![t] = "done"]
          /\ UNCHANGED out
          /\ \/ UNCHANGED ret
             \/ ret' = [ret EXCEPT ![t] = RetPanic]

InfoBody(t) ==
    /\ pc[t] = "cs"
    /\ call[t].op = "Info"
    /\ LoggerInfo(t, logger, "done")
    /\ UNCHANGED <<calls, mtx, logger, sinks, call, out, ls, emitted>>

ErrorBody(t) ==
    /\ pc[t] = "cs"
    /\ call[t].op = "Error"
    /\ LoggerError(t, logger)
    /\ UNCHANGED <<calls, mtx, logger, sinks, call, ls, emitted>>

\* the sink encodes the record and writes the line to the writer it loaded
SinkWrite(t) ==
    /\ pc[t] = "write"
    /\ emitted' = [emitted EXCEPT ![t] =
          Append(@, Record(IF call[t].op = "Error" THEN "error" ELSE "info", lg[t], out[t]))]
    /\ pc' = [pc EXCEPT ![t] = "done"]
    /\ UNCHANGED <<calls, mtx, logger, sinks, call, lg, out, ls, ret>>

\* logger.V(level): on a logger without sink the level is added or, in the
\* logr releases with the nil checks, the logger is returned as it is
VBody(t) ==
    /\ pc[t] = "cs"
    /\ call[t].op = "V"
    /\ lg' = [lg EXCEPT ![t] = logger]
    /\ \/ ret' = [ret EXCEPT ![t] = RetLogger(LogrV(logger, call[t].level))]
       \/ /\ logger.sink = 0
          /\ ret' = [ret EXCEPT ![t] = RetLogger(logger)]
    /\ pc' = [pc EXCEPT ![t] = "done"]
    /\ UNCHANGED <<calls, mtx, logger, sinks, call, out, ls, emitted>>

\* the caller's .Info(msg) on the logger log.V(level) returned: no facade lock
ChainInfo(t) ==
    /\ pc[t] = "chain"
    /\ LoggerInfo(t, ret[t].l, "done")
    /\ UNCHANGED <<calls, mtx, logger, sinks, call, out, ls, emitted>>

\* the caller's statement ends, with or without an Info on the logger that
\* log.V(level) returned
Return(t) ==
    /\ pc[t] \in {"chain", "done"}
    /\ ~HoldsRead(t)
    /\ ~HoldsWrite(t)
    /\ Leave(t, "idle")
    /\ UNCHANGED <<calls, mtx, logger, sinks>>

\* return logger, outside any lock: the struct is copied word by word, the
\* sink and the level in either order, and a write of logger by another
\* goroutine can fall between the two loads
GetLoggerLoad(t) ==
    /\ pc[t] = "get"
    /\ \/ /\ ret' = [ret EXCEPT ![t] = RetLogger([sink |-> logger.sink, level |-> 0])]
          /\ pc' = [pc EXCEPT ![t] = "get_level"]
       \/ /\ ret' = [ret EXCEPT ![t] = RetLogger([sink |-> 0, level |-> logger.level])]
          /\ pc' = [pc EXCEPT ![t] = "get_sink"]
    /\ UNCHANGED <<calls, mtx, logger, sinks, call, lg, out, ls, emitted>>

GetLoggerRest(t) ==
    /\ pc[t] \in {"get_level", "get_sink"}
    /\ ret' = [ret EXCEPT ![t] =
          IF pc[t] = "get_level"
            THEN RetLogger([sink |-> ret[t].l.sink, level |-> logger.level])
            ELSE RetLogger([sink |-> logger.sink, level |-> ret[t].l.level])]
    /\ pc' = [pc EXCEPT ![t] = "done"]
    /\ UNCHANGED <<calls, mtx, logger, sinks, call, lg, out, ls, emitted>>

\* logr's WithValues / WithName: the logger copied, over the sink the old sink
\* derived (a sink of another implementation derives what it likes: itself
\* here); a logger without sink is returned as it is or, in the logr releases
\* without the nil checks, the call on the nil sink panics
Derive(t, new) ==
    /\ lg' = [lg EXCEPT ![t] = logger]
    /\ \/ ret' = [ret EXCEPT ![t] =
             RetDerived([sink |-> 0, level |-> logger.level],
                        IF GetSink(logger).kind = "LogSink" THEN new ELSE GetSink(logger))]
       \/ /\ logger.sink = 0
          /\ ret' = [ret EXCEPT ![t] = RetPanic]
    /\ pc' = [pc EXCEPT ![t] = "done"]

WithValuesBody(t) ==
    /\ pc[t] = "cs"
    /\ call[t].op = "WithValues"
    /\ Derive(t, SinkWithValues(GetSink(logger), call[t].kv))
    /\ UNCHANGED <<calls, mtx, logger, sinks, call, out, ls, emitted>>

\* WithName renaming the installed sink itself
WithNameBodyInPlace(t) ==
    /\ pc[t] = "cs"
    /\ call[t].op = "WithName"
    /\ Derive(t, SinkWithName(GetSink(logger), call[t].name))
    /\ sinks' = [sinks EXCEPT ![logger.sink] = SinkWithName(@, call[t].name)]
    /\ UNCHANGED <<calls, mtx, logger, call, out, ls, emitted>>

WithNameBody(t) ==
    /\ pc[t] = "cs"
    /\ call[t].op = "WithName"
    /\ Derive(t, SinkWithName(GetSink(logger), call[t].name))
    /\ UNCHANGED <<calls, mtx, logger, sinks, call, out, ls, emitted>>

UnknownLoggerError ==
    KVErrorsAdd(ErrUnknownLoggerType,
                <<"logger_type", "logr.Logger", "expected_type", "*log.LogSink">>)

\* SetLogLevel storing a level one too high
SetLogLevelBodyOffByOne(t) ==
    /\ pc[t] = "cs"
    /\ call[t].op = "SetLogLevel"
    /\ lg' = [lg EXCEPT ![t] = logger]
    /\ IF GetSink(logger).kind = "LogSink"
         THEN /\ sinks' = [sinks EXCEPT ![logger.sink] = SinkSetVerbosity(@, call[t].level + 1)]
              /\ ret' = [ret EXCEPT ![t] = RetNil]
         ELSE /\ ret' = [ret EXCEPT ![t] = RetErr(UnknownLoggerError)]
              /\ UNCHANGED sinks
    /\ pc' = [pc EXCEPT ![t] = "done"]
    /\ UNCHANGED <<calls, mtx, logger, call, out, ls, emitted>>

SetLogLevelBody(t) ==
    /\ pc[t] = "cs"
    /\ call[t].op = "SetLogLevel"
    /\ lg' = [lg EXCEPT ![t] = logger]
    /\ IF GetSink(logger).kind = "LogSink"
         THEN /\ sinks' = [sinks EXCEPT ![logger.sink] = SinkSetVerbosity(@, call[t].level)]
              /\ ret' = [ret EXCEPT ![t] = RetNil]
         ELSE /\ ret' = [ret EXCEPT ![t] = RetErr(UnknownLoggerError)]
              /\ UNCHANGED sinks
    /\ pc' = [pc EXCEPT ![t] = "done"]
    /\ UNCHANGED <<calls, mtx, logger, call, out, ls, emitted>>

\* SetOutput without the type switch
SetOutputBodyUnchecked(t) ==
    /\ pc[t] = "cs"
    /\ call[t].op = "SetOutput"
    /\ lg' = [lg EXCEPT ![t] = logger]
    /\ sinks' = [sinks EXCEPT ![logger.sink] = SinkSetOutput(@, call[t].w)]
    /\ ret' = [ret EXCEPT ![t] = RetNil]
    /\ pc' = [pc EXCEPT ![t] = "done"]
    /\ UNCHANGED <<calls, mtx, logger, call, out, ls, emitted>>

SetOutputBody(t) ==
    /\ pc[t] = "cs"
    /\ call[t].op = "SetOutput"
    /\ lg' = [lg EXCEPT ![t] = logger]
    /\ IF GetSink(logger).kind = "LogSink"
         THEN /\ sinks' = [sinks EXCEPT ![logger.sink] = SinkSetOutput(@, call[t].w)]
              /\ ret' = [ret EXCEPT ![t] = RetNil]
         ELSE /\ ret' = [ret EXCEPT ![t] = RetErr(UnknownLoggerError)]
              /\ UNCHANGED sinks
    /\ pc' = [pc EXCEPT ![t] = "done"]
    /\ UNCHANGED <<calls, mtx, logger, call, out, ls, emitted>>

\* InitWithOptions installing the new sink before the options are applied
InitNewInstallFirst(t) ==
    /\ pc[t] = "cs"
    /\ call[t].op \in InitFamily
    /\ sinks' = Append(sinks, NewLogSink(call[t].component, defaultOutput, 0, "JSON", call[t].kv))
    /\ ls' = [ls EXCEPT ![t] = [addr |-> Len(sinks) + 1, i |-> 1]]
    /\ useLogger(LogrNew(Len(sinks) + 1))
    /\ pc' = [pc EXCEPT ![t] = "opts"]
    /\ UNCHANGED <<calls, mtx, call, lg, out, ret, emitted>>

\* ls := NewLogSink(component, defaultOutput, 0, JSONEncoder{}, keyValuePairs...)
InitNew(t) ==
    /\ pc[t] = "cs"
    /\ call[t].op \in InitFamily
    /\ sinks' = Append(sinks, NewLogSink(call[t].component, defaultOutput, 0, "JSON", call[t].kv))
    /\ ls' = [ls EXCEPT ![t] = [addr |-> Len(sinks) + 1, i |-> 1]]
    /\ pc' = [pc EXCEPT ![t] = "opts"]
    /\ UNCHANGED <<calls, mtx, logger, call, lg, out, ret, emitted>>

\* for _, opt := range opts { opt(ls) }: one turn of the loop
InitOpt(t) ==
    /\ pc[t] = "opts"
    /\ ls[t].i <= Len(call[t].opts)
    /\ sinks' = [sinks EXCEPT ![ls[t].addr] = ApplyOption(call[t].opts[ls[t].i], @)]
    /\ ls' = [ls EXCEPT ![t].i = @ + 1]
    /\ UNCHANGED <<calls, mtx, logger, pc, call, lg, out, ret, emitted>>

\* ll := logr.New(ls); useLogger(ll)
InitUse(t) ==
    /\ pc[t] = "opts"
    /\ ls[t].i > Len(call[t].opts)
    /\ useLogger(LogrNew(ls[t].addr))
    /\ lg' = [lg EXCEPT ![t] = LogrNew(ls[t].addr)]
    /\ pc' = [pc EXCEPT ![t] = "done"]
    /\ UNCHANGED <<calls, mtx, sinks, call, out, ls, ret, emitted>>

UseLoggerBody(t) ==
    /\ pc[t] = "cs"
    /\ call[t].op = "UseLogger"
    /\ useLogger(call[t].l)
    /\ lg' = [lg EXCEPT ![t] = call[t].l]
    /\ pc' = [pc EXCEPT ![t] = "done"]
    /\ UNCHANGED <<calls, mtx, sinks, call, out, ls, ret, emitted>>

\* ------------------------------------------------------- the specification
Next ==
    \E t \in Threads :
        \/ InfoCall(t)
        \/ ErrorCall(t)
        \/ VCall(t)
        \/ WithValuesCall(t)
        \/ WithNameCall(t)
        \/ SetLogLevelCall(t)
        \/ SetOutputCall(t)
        \/ InitCall(t)
        \/ InitWithOptionsCall(t)
        \/ MustInitCall(t)
        \/ MustInitWithOptionsCall(t)
        \/ UseLoggerCall(t)
        \/ GetLoggerCall(t)
        \/ RLock(t)
        \/ LockBegin(t)
        \/ LockAcquire(t)
        \/ RUnlock(t)
        \/ Unlock(t)
        \/ InfoBody(t)
        \/ ErrorBody(t)
        \/ SinkInfoEnabled(t)
        \/ SinkLoad(t)
        \/ SinkWrite(t)
        \/ VBody(t)
        \/ ChainInfo(t)
        \/ Return(t)
        \/ WithValuesBody(t)
        \/ WithNameBody(t)
        \/ SetLogLevelBody(t)
        \/ SetOutputBody(t)
        \/ InitNew(t)
        \/ InitOpt(t)
        \/ InitUse(t)
        \/ UseLoggerBody(t)
        \/ GetLoggerLoad(t)
        \/ GetLoggerRest(t)

Spec == Init /\ [][Next]_vars

\* a step of goroutine t inside a call it has made
Step(t) ==
    \/ RLock(t)
    \/ LockBegin(t)
    \/ LockAcquire(t)
    \/ RUnlock(t)
    \/ Unlock(t)
    \/ InfoBody(t)
    \/ ErrorBody(t)
    \/ SinkInfoEnabled(t)
    \/ SinkLoad(t)
    \/ SinkWrite(t)
    \/ VBody(t)
    \/ ChainInfo(t)
    \/ Return(t)
    \/ WithValuesBody(t)
    \/ WithNameBody(t)
    \/ SetLogLevelBody(t)
    \/ SetOutputBody(t)
    \/ InitNew(t)
    \/ InitOpt(t)
    \/ InitUse(t)
    \/ UseLoggerBody(t)
    \/ GetLoggerLoad(t)
    \/ GetLoggerRest(t)

\* The Go scheduler runs every goroutine that can run, and a goroutine blocked
\* in mtx.RLock() or mtx.Lock() is woken when the lock is released: a step
\* that stays possible is taken.  Whether a goroutine makes another call is
\* up to it.
FairSpec == Spec /\ \A t \in Threads : WF_vars(Step(t))

\* ------------------------------------------------------------- the claims
ReaderOps == {"Info", "Error", "WithValues", "WithName", "V"}
WriterOps == InitFamily \cup {"UseLogger", "SetLogLevel", "SetOutput"}
InitOps == {"Init", "InitWithOptions"}

\* t is inside the critical section of its facade call: it holds mtx
InCS(t) == HoldsRead(t) \/ HoldsWrite(t)

\* C1: a SetOutput change of the sink's output never falls inside an Info
\* call's critical section: while an Info call stands between its read of the
\* sink's output and its write of the line, the sink's output is still the
\* one it read.
C1_OutputChangeNeverSplitsInfo ==
    \A t \in Threads :
        (call[t].op = "Info" /\ pc[t] = "write" /\ HoldsRead(t))
            => GetSink(lg[t]).output = out[t]

\* C2: while Init/InitWithOptions, UseLogger, SetLogLevel or SetOutput is
\* inside its critical section, no other facade operation is inside its own.
C2_WritersExclude ==
    \A t \in Threads :
        (call[t].op \in WriterOps /\ InCS(t))
            => \A u \in Threads \ {t} : ~InCS(u)

\* C3: on a logger whose sink is no *LogSink, SetLogLevel and SetOutput return
\* an error that is ErrUnknownLoggerType (by errors.Is) and change neither the
\* facade's logger nor any sink.
C3_UnknownLoggerTypeNoEffect ==
    [][\A t \in Threads :
          (/\ pc[t] = "cs"
           /\ pc'[t] = "done"
           /\ call[t].op \in {"SetLogLevel", "SetOutput"}
           /\ GetSink(logger).kind # "LogSink")
              => /\ ret'[t].kind = "error"
                 /\ ErrorsIs(ret'[t].err, ErrUnknownLoggerType)
                 /\ ret'[t].err # ErrUnknownLoggerType
                 /\ logger' = logger
                 /\ sinks' = sinks]_vars

C3_Witness ==
    \E t \in Threads :
        /\ pc[t] = "done"
        /\ call[t].op = "SetOutput"
        /\ GetSink(logger).kind = "Other"
        /\ ret[t].kind = "error"

\* C4: before any call the facade holds a logger over a LogSink with empty
\* name, no fields, JSON encoder, standard output and verbosity 0; after any
\* sequence of calls the facade's logger still refers to a sink; and while
\* that first sink is installed SetLogLevel and SetOutput return nil and
\* Error reaches the sink.
C4_DefaultLoggerAlwaysSet ==
    /\ calls = 0 =>
          /\ logger = [sink |-> 1, level |-> 0]
          /\ sinks = <<[kind |-> "LogSink", name |-> <<>>, fields |-> <<>>,
                        verbosity |-> 0, output |-> Stdout, encoder |-> "JSON"]>>
    /\ logger.sink \in 1..Len(sinks)
    /\ \A t \in Threads :
          (pc[t] = "done" /\ InCS(t) /\ logger.sink = 1) =>
              /\ call[t].op \in {"SetLogLevel", "SetOutput"} => ret[t] = RetNil
              /\ call[t].op = "Error" => Len(emitted[t]) = 1

\* C5: no step of V, WithValues, WithName, Info or Error changes the facade's
\* logger or any field of any sink.
C5_ReadersChangeNothing ==
    [][\A t \in Threads :
          (pc'[t] # pc[t] /\ (call[t].op \in ReaderOps \/ call'[t].op \in ReaderOps))
              => (logger' = logger /\ sinks' = sinks)]_vars

C5_Witness ==
    \E t \in Threads :
        /\ pc[t] = "done"
        /\ call[t].op = "WithName"
        /\ ret[t].derived.name = Append(GetSink(logger).name, call[t].name)
        /\ GetSink(logger).name = <<>>

NonNegative(level) == IF level < 0 THEN 0 ELSE level

\* what SetLogLevel(v) leaves behind on a LogSink: nil and the threshold v
SetLogLevelSetsThreshold(t) ==
    (/\ pc[t] = "cs"
     /\ pc'[t] = "done"
     /\ call[t].op = "SetLogLevel"
     /\ GetSink(logger).kind = "LogSink")
        => /\ ret'[t] = RetNil
           /\ sinks'[logger.sink].verbosity = call[t].level

\* logr asks the LogSink of t's log.V(L).Info(msg) Enabled in this step
ChainDecides(t) ==
    /\ pc[t] = "chain"
    /\ pc'[t] \in {"sink", "done"}
    /\ GetSink(ret[t].l).kind = "LogSink"

\* the LogSink's Info of t's log.V(L).Info(msg) asks itself Enabled in this step
SinkDecides(t) ==
    /\ call[t].op = "V"
    /\ pc[t] = "sink"
    /\ pc'[t] \in {"load", "done"}
    /\ GetSink(lg[t]).kind = "LogSink"

\* C6 as stated: after SetLogLevel(v) the sink's threshold is v, and a record
\* logged at V(L).Info is emitted iff L <= the threshold: logr and the sink
\* each let it pass iff L <= the threshold.
C6_EmittedIffLevelAtMostThreshold ==
    [][\A t \in Threads :
          /\ SetLogLevelSetsThreshold(t)
          /\ ChainDecides(t) =>
                (pc'[t] = "sink" <=> call[t].level <= GetSink(ret[t].l).verbosity)
          /\ SinkDecides(t) =>
                (pc'[t] = "load" <=> call[t].level <= GetSink(lg[t]).verbosity)]_vars

\* C6 as amended: after SetLogLevel(v) the sink's threshold is v, and a record
\* logged at V(L).Info is emitted iff k + max(L, 0) <= the threshold, k being
\* the level of the logger that was installed when V was called: logr and the
\* sink each let it pass iff that sum is at most the threshold.
C6_EmittedRelativeToInstalledLevel ==
    [][\A t \in Threads :
          /\ SetLogLevelSetsThreshold(t)
          /\ ChainDecides(t) =>
                /\ lg'[t].level = lg[t].level + NonNegative(call[t].level)
                /\ pc'[t] = "sink" <=>
                      lg[t].level + NonNegative(call[t].level) <= GetSink(ret[t].l).verbosity
          /\ SinkDecides(t) =>
                (pc'[t] = "load" <=> lg[t].level <= GetSink(lg[t]).verbosity)]_vars

C6_Witness ==
    \E t \in Threads :
        /\ call[t].op = "V"
        /\ call[t].level = 1
        /\ pc[t] = "done"
        /\ ~HoldsRead(t)
        /\ lg[t] = [sink |-> 1, level |-> 1]
        /\ sinks[1].verbosity = 1
        /\ Len(emitted[t]) = 1

\* C7: a facade Error call hands exactly one error record to the installed
\* sink, whatever the threshold and the logger's level.
C7_ErrorNeverFiltered ==
    \A t \in Threads :
        (call[t].op = "Error" /\ pc[t] = "done")
            => /\ Len(emitted[t]) = 1
               /\ emitted[t][1].kind = "error"
               /\ emitted[t][1].sink = logger.sink

\* C8: when SetOutput(w) is about to return nil, the installed sink's output
\* is w (so that the calls that start afterwards write to w).
C8_SetOutputTakesEffect ==
    \A t \in Threads :
        (call[t].op = "SetOutput" /\ pc[t] = "done" /\ ret[t] = RetNil)
            => GetSink(logger).output = call[t].w

RECURSIVE ApplyOptions(_, _)
ApplyOptions(opts, s) ==
    IF opts = <<>> THEN s ELSE ApplyOptions(Tail(opts), ApplyOption(Head(opts), s))

\* C9: InitWithOptions holds mtx alone among the facade calls; the sink it
\* builds is referred to by nobody while the options are applied; and when it
\* is about to return the facade's logger is a level-0 logger over that sink,
\* which equals the options applied in list order to a sink with the
\* component, the key/values, the default output, verbosity 0 and the JSON
\* encoder, whatever the previous sink's verbosity and output were.
C9_InitInstallsConfiguredSink ==
    \A t \in Threads :
        call[t].op \in InitOps =>
            /\ HoldsWrite(t) => \A u \in Threads \ {t} : ~InCS(u)
            /\ pc[t] = "opts" =>
                  /\ logger.sink # ls[t].addr
                  /\ \A u \in Threads : lg[u].sink # ls[t].addr /\ ret[u].l.sink # ls[t].addr
            /\ pc[t] = "done" =>
                  /\ logger = [sink |-> ls[t].addr, level |-> 0]
                  /\ sinks[ls[t].addr] =
                        ApplyOptions(call[t].opts,
                            [kind |-> "LogSink", name |-> call[t].component,
                             fields |-> call[t].kv, verbosity |-> 0,
                             output |-> Stdout, encoder |-> "JSON"])

C9_Witness ==
    \E t \in Threads :
        /\ call[t].op = "InitWithOptions"
        /\ pc[t] = "done"
        /\ call[t].opts = <<WithLogLevel(1), WithLogLevel(0)>>
        /\ sinks[1].verbosity = 1
        /\ GetSink(logger).verbosity = 0
        /\ logger.sink = 2

\* C10: a facade call inside its critical section works on the logger that is
\* installed now, from its read of the logger to its return, and UseLogger(l)
\* is about to return with l installed.
C10_CallsUseInstalledLogger ==
    \A t \in Threads :
        /\ (InCS(t) /\ pc[t] \in {"sink", "load", "write", "done"}) => lg[t] = logger
        /\ (call[t].op = "UseLogger" /\ pc[t] = "done") => logger = call[t].l

C10_Witness ==
    \E t \in Threads :
        /\ call[t].op = "Info"
        /\ pc[t] = "done"
        /\ InCS(t)
        /\ logger.sink = 2
        /\ Len(emitted[t]) = 1
        /\ emitted[t][1].sink = 2

\* C11: every read of the facade's logger holds mtx, so that no read of it is
\* concurrent with a write by Init/UseLogger: what a read in progress has
\* loaded of the logger is still what the logger holds.
C11_LoggerReadsNeverRaceWrites ==
    \A t \in Threads :
        /\ pc[t] = "get_level" => ret[t].l.sink = logger.sink
        /\ pc[t] = "get_sink" => ret[t].l.level = logger.level

RLockOps == ReaderOps \cup {"SetOutput"}
LockOps == InitFamily \cup {"UseLogger", "SetLogLevel"}

\* the lock each goroutine holds is the one its call has acquired and has
\* not yet released, and no other
LockAccounting ==
    /\ \A t \in Threads :
          /\ pc[t] \in {"idle", "rlock", "lock", "chain", "get", "get_level", "get_sink"}
                => (~HoldsRead(t) /\ mtx.writer # t)
          /\ pc[t] = "lockwait" => (mtx.writer = t /\ ~HoldsRead(t))
          /\ pc[t] \in {"cs", "opts"} =>
                /\ call[t].op \in RLockOps => (HoldsRead(t) /\ mtx.writer # t)
                /\ call[t].op \in LockOps => (HoldsWrite(t) /\ ~HoldsRead(t))
          /\ ~(HoldsRead(t) /\ mtx.writer = t)
    /\ mtx.readers \subseteq Threads
    /\ mtx.writer \in Threads \cup {0}
    /\ (\A t \in Threads : pc[t] = "idle") => mtx = [writer |-> 0, readers |-> {}]

\* a call is in progress and some goroutine inside a call can take a step
NoDeadlock == (\E t \in Threads : pc[t] # "idle") => \E t \in Threads : ENABLED Step(t)

\* C12: every goroutine holds exactly the lock its call acquired and nothing
\* once it has returned (also on the error return of SetLogLevel/SetOutput);
\* the lock is free when no call is in progress; while a call is in progress
\* some goroutine can step; and under fair scheduling every call returns.
C12_LocksReleasedCallsReturn ==
    /\ [](LockAccounting /\ NoDeadlock)
    /\ \A t \in Threads : (pc[t] # "idle") ~> (pc[t] = "idle")

C12_Witness ==
    /\ calls = MaxCalls
    /\ \A t \in Threads : pc[t] = "idle"
    /\ mtx = [writer |-> 0, readers |-> {}]
    /\ GetSink(logger).kind = "Other"

MustOps == {"MustInit", "MustInitWithOptions"}

\* C13: initialization returns no error, so MustInit and MustInitWithOptions
\* never panic: they return as Init and InitWithOptions do, and when one is
\* about to return the facade is as Init/InitWithOptions with the same
\* arguments leaves it: the logger is a level-0 logger over a new sink that
\* is the given options applied in order to a sink with the given component
\* and key/values, the default output, verbosity 0 and the JSON encoder.
C13_MustInitLeavesWhatInitLeaves ==
    \A t \in Threads :
        call[t].op \in MustOps =>
            /\ pc[t] \in {"lock", "lockwait", "cs", "opts", "done"}
            /\ ret[t] = NoRet
            /\ pc[t] = "done" =>
                  /\ HoldsWrite(t)
                  /\ logger = LogrNew(ls[t].addr)
                  /\ sinks[ls[t].addr] =
                        ApplyOptions(call[t].outer[2],
                            NewLogSink(call[t].outer[1], defaultOutput, 0, "JSON",
                                       call[t].outer[3]))

C13_Witness ==
    \E t \in Threads :
        /\ call[t].op = "MustInitWithOptions"
        /\ pc[t] = "done"
        /\ call[t].outer[2] = <<WithEncoder("Text"), WithLogLevel(1)>>
        /\ GetSink(logger).encoder = "Text"
        /\ GetSink(logger).verbosity = 1
        /\ GetSink(logger).fields = <<"k", "v">>

====
